---- MODULE Spec2Model ----
(***************************************************************************)
(* Diamond-Square terrain tiles (src/src/main.rs).                         *)
(*                                                                         *)
(* generate_map is modelled as a sequential program (pc), one step per     *)
(* loop iteration of its square pass, its diamond pass and its colouring   *)
(* pipeline.  The Bevy systems setup, process_gentile and ui_example are   *)
(* modelled as a frame loop with an event queue and deferred commands.     *)
(*                                                                         *)
(* Numbers.  f32 elevations are fixed-point integers, One units per 1.0;   *)
(* a division or product that is not exact is rounded down, standing for   *)
(* the f32 rounding.  NaN (0.0 / 0.0) is a value of its own.  The squashed *)
(* fraction p is a fixed-point integer with PUnit units per 1.0.           *)
(* SipHash (DefaultHasher) is abstracted by a small deterministic mixing   *)
(* function of (seed, x, y), written in that order as in the code.         *)
(***************************************************************************)
EXTENDS Integers, Sequences, FiniteSets, TLC

VARIABLES
    \* ---- generate_map: arguments
    position, seed, roughness0, image_size,
    \* ---- generate_map: locals
    pc, heightmap, chunk_size, roughness, x, y, idx, p, value, pixels,
    \* ---- generate_map: history (not in the code; recorded for the properties)
    iters, assigned, passStart, seeded, touched,
    \* ---- the caller of the pure function: which tile, the first tile's maps
    tileNo, dir, first,
    \* ---- Bevy world
    tiles, events, commands, ran, frame, nextId, uiSeed, started

gmVars == <<position, seed, roughness0, image_size, pc, heightmap, chunk_size,
            roughness, x, y, idx, p, value, pixels, iters, assigned, passStart,
            seeded, touched, tileNo, dir, first>>
appVars == <<tiles, events, commands, ran, frame, nextId, uiSeed, started>>
vars == <<gmVars, appVars>>

----------------------------------------------------------------------------
(* Bounds of the model *)

\* image_size ranges over 2^k + 1 for k in 0..MaxK, and over InvalidSizes
MaxK == 3
\* frames the Bevy world is run for
MaxFrames == 4

InvalidSizes == {0, 1, 4, 6, 7}
Seeds == {0, 1}
Roughs == {1, 2}
Positions == {<<0, 0>>, <<-1, 2>>}
Dirs == {<<1, 0>>, <<0, 1>>}

----------------------------------------------------------------------------
(* Numbers *)

RECURSIVE Pow2(_)
Pow2(n) == IF n <= 0 THEN 1 ELSE 2 * Pow2(n - 1)

\* units of the fixed-point elevation per 1/255 (the grain of hash)
Frac == 16
\* 1.0 as an elevation
One == 255 * Frac
\* units of the fixed-point roughness per 1.0: halving is exact at every level
RUnit == Pow2(MaxK + 1)
\* units of the squashed fraction p per 1.0
PUnit == 1000
\* the f32 NaN
NaN == -1000000000

FAdd(a, b) == IF a = NaN \/ b = NaN THEN NaN ELSE a + b
\* a / n for a count n (neighbors as f32): 0.0 / 0.0 is NaN
FDivCount(a, n) == IF a = NaN \/ n = 0 THEN NaN ELSE a \div n

ValidSizes == {Pow2(k) + 1 : k \in 0..MaxK}
Sizes == ValidSizes \cup InvalidSizes

----------------------------------------------------------------------------
(* The coordinate hash: lines 172-179 *)

HashMod == 65521
Mix(h, v) == (h * 131 + v + 4096) % HashMod
\* hasher.write_isize(seed); write_i32(x); write_i32(y); finish()
Finish(s, hx, hy) == (Mix(Mix(Mix(17, s), hx), hy) * 31321) % HashMod
\* (finish % 0xFF) as f32 / 0xFF as f32
Hash(s, hx, hy) == ((Finish(s, hx, hy) % 255) * One) \div 255

\* (hash(x, y) * 2.0 - 1.0) * roughness
Jitter(s, hx, hy, rough) == ((Hash(s, hx, hy) * 2 - One) * rough) \div RUnit

----------------------------------------------------------------------------
(* The heightmap: Vec<Vec<f32>>, heightmap[x][y] *)

ZeroMap(N) == [i \in 0..(N - 1) |-> [j \in 0..(N - 1) |-> 0]]
InGrid(c) == c[1] \in 0..(image_size - 1) /\ c[2] \in 0..(image_size - 1)
Grid == (0..(image_size - 1)) \X (0..(image_size - 1))
At(hm, c) == hm[c[1]][c[2]]
Put(hm, c, v) == [hm EXCEPT ![c[1]][c[2]] = v]

\* SeedCorners with the hashes of the two off-diagonal corners exchanged
SeedCornersSwapped(hm, N, s, px, py) ==
    LET h1 == Put(hm, <<0, 0>>, Hash(s, px, py))
        h2 == Put(h1, <<0, N - 1>>, Hash(s, px + 1, py))
        h3 == Put(h2, <<N - 1, 0>>, Hash(s, px, py + 1))
    IN  Put(h3, <<N - 1, N - 1>>, Hash(s, px + 1, py + 1))

\* the four corners, lines 184-187
SeedCorners(hm, N, s, px, py) ==
    LET h1 == Put(hm, <<0, 0>>, Hash(s, px, py))
        h2 == Put(h1, <<0, N - 1>>, Hash(s, px, py + 1))
        h3 == Put(h2, <<N - 1, 0>>, Hash(s, px + 1, py))
    IN  Put(h3, <<N - 1, N - 1>>, Hash(s, px + 1, py + 1))

----------------------------------------------------------------------------
(* Square pass: lines 194-208 *)

\* SquareEnd with the ranges running to image_size
SquareEndInclusive(N) == N

\* the end of the ranges of x and of y: (0..image_size - 1).step_by(chunk_size)
SquareEnd(N) == N - 1

\* the chunk after chunk (cx, cy) in the order of the loops, y outside and x
\* inside; the loops are exhausted when its y has reached SquareEnd
SquareNext(cx, cy, N, c) ==
    IF cx + c < SquareEnd(N) THEN <<cx + c, cy>> ELSE <<0, cy + c>>

SquareReads(cx, cy, c) == {<<cx, cy>>, <<cx + c, cy>>, <<cx, cy + c>>, <<cx + c, cy + c>>}
SquareCentre(cx, cy, half) == <<cx + half, cy + half>>

\* SquareChunk with the jitter added to the centre it has just written
SquareChunkJitterCentre(hm, cx, cy, c, s, rough) ==
    LET half == c \div 2
        average == FDivCount(FAdd(FAdd(FAdd(At(hm, <<cx, cy>>), At(hm, <<cx + c, cy>>)),
                                       At(hm, <<cx, cy + c>>)),
                                  At(hm, <<cx + c, cy + c>>)), 4)
    IN  Put(hm, <<cx + half, cy + half>>, FAdd(average, Jitter(s, cx, cy, rough)))

\* one chunk: the centre is written, then the top-left corner is jittered
SquareChunk(hm, cx, cy, c, s, rough) ==
    LET half == c \div 2
        average == FDivCount(FAdd(FAdd(FAdd(At(hm, <<cx, cy>>), At(hm, <<cx + c, cy>>)),
                                       At(hm, <<cx, cy + c>>)),
                                  At(hm, <<cx + c, cy + c>>)), 4)
        h1 == Put(hm, SquareCentre(cx, cy, half), average)
    IN  Put(h1, <<cx, cy>>, FAdd(At(h1, <<cx, cy>>), Jitter(s, cx, cy, rough)))

----------------------------------------------------------------------------
(* Diamond pass: lines 211-242 *)

\* DiamondStart with the phase of the row forgotten
DiamondStartNoPhase(cy, half, c) == cy % c

\* the first x of row cy: (y + half) % chunk_size
DiamondStart(cy, half, c) == (cy + half) % c

\* the first row at or after cy, in steps of half, that holds a cell:
\* for y in (0..image_size).step_by(half), x from DiamondStart below image_size
RECURSIVE DiamondRow(_, _, _)
DiamondRow(cy, N, c) ==
    IF cy >= N \/ DiamondStart(cy, c \div 2, c) < N THEN cy
    ELSE DiamondRow(cy + c \div 2, N, c)

\* the first cell of the pass; the loops are exhausted when its y has reached N
DiamondFirst(N, c) ==
    LET r == DiamondRow(0, N, c)
    IN  <<DiamondStart(r, c \div 2, c), r>>

\* the cell after cell (cx, cy) in the order of the loops
DiamondNext(cx, cy, N, c) ==
    IF cx + c < N THEN <<cx + c, cy>>
    ELSE LET r == DiamondRow(cy + c \div 2, N, c)
         IN  <<DiamondStart(r, c \div 2, c), r>>

\* the guards of lines 216, 221, 226, 231
LeftOk(cx, half) == cx > half
UpOk(cy, half) == cy > half
RightOk(cx, half, N) == cx + half < N - 1
DownOk(cy, half, N) == cy + half < N - 1

\* the neighbours that are read, in the order they are read
Neighbors(cx, cy, half, N) ==
    (IF LeftOk(cx, half) THEN <<(<<cx - half, cy>>)>> ELSE <<>>)
    \o (IF UpOk(cy, half) THEN <<(<<cx, cy - half>>)>> ELSE <<>>)
    \o (IF RightOk(cx, half, N) THEN <<(<<cx + half, cy>>)>> ELSE <<>>)
    \o (IF DownOk(cy, half, N) THEN <<(<<cx, cy + half>>)>> ELSE <<>>)

RECURSIVE SumAt(_, _, _)
SumAt(hm, cs, i) == IF i > Len(cs) THEN 0 ELSE FAdd(At(hm, cs[i]), SumAt(hm, cs, i + 1))

DiamondCell(hm, cx, cy, c, N, s, rough) ==
    LET nb == Neighbors(cx, cy, c \div 2, N)
        h1 == Put(hm, <<cx, cy>>, FDivCount(SumAt(hm, nb, 1), Len(nb)))
    IN  Put(h1, <<cx, cy>>, FAdd(At(h1, <<cx, cy>>), Jitter(s, cx, cy, rough)))

----------------------------------------------------------------------------
(* Colouring: lines 249-272 *)

\* 1000 / (1 + e^-f) at f = 0, 1, .. 8
Sigmoid == <<500, 731, 881, 953, 982, 993, 998, 999, 1000>>

\* 1.0 / (1.0 + E.powf(-f)): the logistic curve, linear between the integers
Squash(f) ==
    IF f = NaN THEN NaN
    ELSE LET a == IF f < 0 THEN -f ELSE f
             i == a \div One
             s == IF i >= 8 THEN PUnit
                  ELSE Sigmoid[i + 1] + ((Sigmoid[i + 2] - Sigmoid[i + 1]) * (a % One)) \div One
         IN  IF f < 0 THEN PUnit - s ELSE s

\* Quantize with the product rounded to the nearest integer
QuantizeRounded(q) == IF q = NaN THEN 0 ELSE (2 * q * 255 + PUnit) \div (2 * PUnit)

\* (f * 0xFF as f32) as i32: the cast truncates, and NaN casts to 0
Quantize(q) == IF q = NaN THEN 0 ELSE (q * 255) \div PUnit

\* Below with <= for <
BelowOrEqual(q, percent) == q # NaN /\ q * 100 <= percent * PUnit

\* f < limit on f32: false for NaN
Below(q, percent) == q # NaN /\ q * 100 < percent * PUnit

\* the match of lines 257-262: the packed colour
Colour(q) ==
    LET v == Quantize(q)
    IN  IF Below(q, 20) THEN v
        ELSE IF Below(q, 65) THEN v * 256
        ELSE IF Below(q, 90) THEN (v \div 2) * 65536 + (v \div 2) * 256 + (v \div 2)
        ELSE v * 65536 + v * 256 + v

\* lines 265-270
Unpack(f) == <<(f \div 65536) % 256, (f \div 256) % 256, f % 256, 255>>

\* FlatCell with the two indices exchanged
FlatCellTransposed(n, N) == <<n % N, n \div N>>

\* heightmap.into_iter().flatten(): cell number n (from 0) is heightmap[n / N][n % N]
FlatCell(n, N) == <<n \div N, n % N>>

----------------------------------------------------------------------------
(* generate_map as a sequential program *)

\* usize::MAX, what 0 - 1 wraps to in a build without overflow checks
UsizeMax == 2147483647

AppIdle ==
    /\ tiles = {} /\ events = <<>> /\ commands = <<>> /\ ran = {}
    /\ frame = 0 /\ nextId = 1 /\ uiSeed = 0 /\ started = FALSE

\* the locals of generate_map before line 166
Entry ==
    /\ pc = "entry" /\ heightmap = <<>> /\ chunk_size = 0 /\ roughness = 0
    /\ x = 0 /\ y = 0 /\ idx = 0 /\ p = 0 /\ value = 0 /\ pixels = <<>>
    /\ iters = 0 /\ assigned = {} /\ passStart = <<>> /\ seeded = <<>>
    /\ touched = {}

Init ==
    /\ position \in Positions /\ seed \in Seeds /\ roughness0 \in Roughs
    /\ image_size \in Sizes /\ dir \in Dirs
    /\ tileNo = 1 /\ first = [seeded |-> <<>>, heightmap |-> <<>>]
    /\ Entry
    /\ AppIdle

\* lines 166-169.  image_size - 1 on image_size = 0 panics in a build with
\* overflow checks and wraps in one without.
Alloc ==
    /\ pc = "entry"
    /\ heightmap' = ZeroMap(image_size)
    /\ roughness' = roughness0 * RUnit
    /\ \E checked \in (IF image_size = 0 THEN BOOLEAN ELSE {FALSE}) :
          IF checked
          THEN pc' = "panic" /\ chunk_size' = chunk_size
          ELSE /\ pc' = "seed"
               /\ chunk_size' = IF image_size = 0 THEN UsizeMax ELSE image_size - 1
    /\ UNCHANGED <<position, seed, roughness0, image_size, x, y, idx, p, value, pixels,
                   iters, assigned, passStart, seeded, touched, tileNo, dir, first>>
    /\ UNCHANGED appVars

Corners(N) == {<<0, 0>>, <<0, N - 1>>, <<N - 1, 0>>, <<N - 1, N - 1>>}

\* lines 183-187
Seed ==
    /\ pc = "seed"
    /\ touched' = Corners(image_size)
    /\ IF \A c \in Corners(image_size) : InGrid(c)
       THEN /\ heightmap' = SeedCorners(heightmap, image_size, seed,
                                        position[1], position[2])
            /\ seeded' = heightmap'
            /\ assigned' = Corners(image_size)
            /\ pc' = "loop"
       ELSE /\ pc' = "panic"
            /\ UNCHANGED <<heightmap, seeded, assigned>>
    /\ UNCHANGED <<position, seed, roughness0, image_size, chunk_size, roughness,
                   x, y, idx, p, value, pixels, iters, passStart, tileNo, dir, first>>
    /\ UNCHANGED appVars

\* line 190: while chunk_size > 1
LoopTest ==
    /\ pc = "loop"
    /\ IF chunk_size > 1
       THEN pc' = "square" /\ x' = 0 /\ y' = 0 /\ passStart' = heightmap
       ELSE pc' = "colour" /\ UNCHANGED <<x, y, passStart>>
    /\ idx' = 0
    /\ touched' = {}
    /\ UNCHANGED <<position, seed, roughness0, image_size, heightmap, chunk_size,
                   roughness, p, value, pixels, iters, assigned, seeded,
                   tileNo, dir, first>>
    /\ UNCHANGED appVars

\* lines 196-206, one chunk
SquareStep ==
    /\ pc = "square"
    /\ y < SquareEnd(image_size)
    /\ LET half == chunk_size \div 2
           acc == SquareReads(x, y, chunk_size) \cup {SquareCentre(x, y, half)}
           nxt == SquareNext(x, y, image_size, chunk_size)
       IN  /\ touched' = acc
           /\ IF \A c \in acc : InGrid(c)
              THEN /\ heightmap' = SquareChunk(heightmap, x, y, chunk_size, seed, roughness)
                   /\ assigned' = assigned \cup {SquareCentre(x, y, half)}
                   /\ x' = nxt[1] /\ y' = nxt[2]
                   /\ pc' = pc
              ELSE /\ pc' = "panic"
                   /\ UNCHANGED <<heightmap, assigned, x, y>>
    /\ UNCHANGED <<position, seed, roughness0, image_size, chunk_size, roughness,
                   idx, p, value, pixels, iters, passStart, seeded, tileNo, dir, first>>
    /\ UNCHANGED appVars

\* the square loops are exhausted: the diamond loops begin
SquareDone ==
    /\ pc = "square"
    /\ y >= SquareEnd(image_size)
    /\ pc' = "diamond" /\ touched' = {}
    /\ x' = DiamondFirst(image_size, chunk_size)[1]
    /\ y' = DiamondFirst(image_size, chunk_size)[2]
    /\ UNCHANGED <<position, seed, roughness0, image_size, heightmap, chunk_size,
                   roughness, idx, p, value, pixels, iters, assigned, passStart, seeded,
                   tileNo, dir, first>>
    /\ UNCHANGED appVars

Range(f) == {f[i] : i \in DOMAIN f}

\* lines 213-240, one cell
DiamondStep ==
    /\ pc = "diamond"
    /\ y < image_size
    /\ LET acc == Range(Neighbors(x, y, chunk_size \div 2, image_size)) \cup {<<x, y>>}
           nxt == DiamondNext(x, y, image_size, chunk_size)
       IN  /\ touched' = acc
           /\ IF \A c \in acc : InGrid(c)
              THEN /\ heightmap' = DiamondCell(heightmap, x, y, chunk_size, image_size,
                                               seed, roughness)
                   /\ assigned' = assigned \cup {<<x, y>>}
                   /\ x' = nxt[1] /\ y' = nxt[2]
                   /\ pc' = pc
              ELSE /\ pc' = "panic"
                   /\ UNCHANGED <<heightmap, assigned, x, y>>
    /\ UNCHANGED <<position, seed, roughness0, image_size, chunk_size, roughness,
                   idx, p, value, pixels, iters, passStart, seeded, tileNo, dir, first>>
    /\ UNCHANGED appVars

\* lines 244-245, once the diamond loops are exhausted
DiamondDone ==
    /\ pc = "diamond"
    /\ y >= image_size
    /\ chunk_size' = chunk_size \div 2
    /\ roughness' = roughness \div 2
    /\ iters' = iters + 1
    /\ pc' = "loop" /\ touched' = {}
    /\ UNCHANGED <<position, seed, roughness0, image_size, heightmap, x, y, idx, p, value,
                   pixels, assigned, passStart, seeded, tileNo, dir, first>>
    /\ UNCHANGED appVars

\* lines 249-271, one element through the iterator chain
ColourCell ==
    /\ pc = "colour"
    /\ idx < image_size * image_size
    /\ p' = Squash(At(heightmap, FlatCell(idx, image_size)))
    /\ value' = Quantize(p')
    /\ pixels' = pixels \o Unpack(Colour(p'))
    /\ idx' = idx + 1
    /\ UNCHANGED <<position, seed, roughness0, image_size, pc, heightmap, chunk_size,
                   roughness, x, y, iters, assigned, passStart, seeded, touched,
                   tileNo, dir, first>>
    /\ UNCHANGED appVars

\* line 272: collect() and return
Return ==
    /\ pc = "colour"
    /\ idx >= image_size * image_size
    /\ pc' = "done"
    /\ UNCHANGED <<position, seed, roughness0, image_size, heightmap, chunk_size,
                   roughness, x, y, idx, p, value, pixels, iters, assigned, passStart,
                   seeded, touched, tileNo, dir, first>>
    /\ UNCHANGED appVars

\* the function is applied again, to the neighbouring tile position
NextTile ==
    /\ pc = "done" /\ tileNo = 1
    /\ first' = [seeded |-> seeded, heightmap |-> heightmap]
    /\ tileNo' = 2
    /\ position' = <<position[1] + dir[1], position[2] + dir[2]>>
    /\ pc' = "entry" /\ heightmap' = <<>> /\ chunk_size' = 0 /\ roughness' = 0
    /\ x' = 0 /\ y' = 0 /\ idx' = 0 /\ p' = 0 /\ value' = 0 /\ pixels' = <<>>
    /\ iters' = 0 /\ assigned' = {} /\ passStart' = <<>> /\ seeded' = <<>>
    /\ touched' = {}
    /\ UNCHANGED <<seed, roughness0, image_size, dir>>
    /\ UNCHANGED appVars

Next ==
    \/ Alloc \/ Seed \/ LoopTest \/ SquareStep \/ SquareDone
    \/ DiamondStep \/ DiamondDone \/ ColourCell \/ Return \/ NextTile

Spec == Init /\ [][Next]_vars

\* the program runs to its end: no step of it is postponed for ever
FairSpec == Spec /\ WF_vars(Next)

----------------------------------------------------------------------------
(* Properties of generate_map *)

\* image_size = 2^k + 1 with k >= 1
ValidRequest == \E k \in 1..MaxK : image_size = Pow2(k) + 1
KOf(N) == CHOOSE k \in 1..MaxK : N = Pow2(k) + 1
\* image_size >= 2 and image_size - 1 a power of two
SizeAccepted == \E k \in 0..MaxK : image_size = Pow2(k) + 1

RECURSIVE SetSum(_, _)
SetSum(hm, S) ==
    IF S = {} THEN 0
    ELSE LET c == CHOOSE d \in S : TRUE
         IN  FAdd(At(hm, c), SetSum(hm, S \ {c}))

\* C1: a request whose image_size is below 2 or whose image_size - 1 is not a
\* power of two is rejected before the heightmap is allocated: generate_map
\* never gets past its entry and produces no pixel for it.
C1_InvalidSizeRejected ==
    ~SizeAccepted => (pc = "entry" /\ heightmap = <<>> /\ pixels = <<>>)

\* C2: for image_size = 2^k + 1, k >= 1, chunk_size halves without remainder
\* from image_size - 1 (chunk_size * 2^iters = image_size - 1 all along), the
\* loop is left after exactly k iterations with chunk_size = 1 and every cell
\* assigned, and generate_map started on such a request reaches its return.
C2_LoopTerminatesFilled ==
    /\ [](ValidRequest =>
            /\ pc \in {"loop", "square", "diamond"}
                  => chunk_size * Pow2(iters) = image_size - 1
            /\ pc \in {"colour", "done"}
                  => /\ iters = KOf(image_size)
                     /\ chunk_size = 1
                     /\ assigned = Grid)
    /\ ((ValidRequest /\ pc = "entry") ~> (pc = "done"))

C2_Witness ==
    /\ pc = "done" /\ image_size = 9 /\ iters = 3 /\ chunk_size = 1
    /\ assigned = Grid

\* C5: for every valid request the returned bytes are image_size^2 * 4 long,
\* and bytes 4n+1..4n+4 are the pixel of the n-th stored cell,
\* heightmap[n / image_size][n % image_size].
C5_OutputLength ==
    (ValidRequest /\ pc = "done") =>
        /\ Len(pixels) = image_size * image_size * 4
        /\ \A n \in 0..(image_size * image_size - 1) :
              SubSeq(pixels, 4 * n + 1, 4 * n + 4)
                 = Unpack(Colour(Squash(heightmap[n \div image_size][n % image_size])))

C5_Witness ==
    /\ pc = "done" /\ image_size = 5 /\ Len(pixels) = 100
    /\ \E n \in 1..24 : SubSeq(pixels, 4 * n + 1, 4 * n + 4) # SubSeq(pixels, 1, 4)

\* C6: every diamond step sets its cell (x, y) to the sum of all its cardinal
\* neighbours at distance half that lie in the grid (rows and columns 0 and
\* image_size - 1 included), divided by their number, plus the jitter; that
\* number is 2, 3 or 4.
C6_DiamondAveragesInGrid ==
    [][(ValidRequest /\ pc = "diamond" /\ pc' = "diamond" /\ <<x, y>>' # <<x, y>>) =>
          LET half == chunk_size \div 2
              nb == {c \in {<<x - half, y>>, <<x + half, y>>,
                            <<x, y - half>>, <<x, y + half>>} : InGrid(c)}
              n == Cardinality(nb)
          IN  /\ n \in {2, 3, 4}
              /\ heightmap'[x][y] = FAdd(FDivCount(SetSum(heightmap, nb), n),
                                         Jitter(seed, x, y, roughness))]_vars

\* C7: every square step sets the centre of its chunk to the average of the
\* chunk's four corners as they were when the pass began, adds the jitter to
\* the chunk's top-left corner and changes no other cell; after the first
\* square pass only cell [0][0] of the four grid corners differs from its
\* seeded value, by that jitter.
C7_SquareStepFrame ==
    [][(ValidRequest /\ pc = "square" /\ pc' = "square" /\ <<x, y>>' # <<x, y>>) =>
          LET c == chunk_size
              centre == <<x + c \div 2, y + c \div 2>>
              jitter == Jitter(seed, x, y, roughness)
              began == FDivCount(FAdd(FAdd(FAdd(At(passStart, <<x, y>>),
                                                At(passStart, <<x + c, y>>)),
                                           At(passStart, <<x, y + c>>)),
                                      At(passStart, <<x + c, y + c>>)), 4)
          IN  /\ At(heightmap', centre) = began
              /\ At(heightmap', <<x, y>>) = FAdd(At(heightmap, <<x, y>>), jitter)
              /\ \A d \in Grid \ {centre, <<x, y>>} : At(heightmap', d) = At(heightmap, d)
              /\ iters = 0 =>
                    /\ \A d \in Corners(image_size) \ {<<0, 0>>} :
                          At(heightmap', d) = At(seeded, d)
                    /\ At(heightmap', <<0, 0>>) = FAdd(At(seeded, <<0, 0>>), jitter)
                    /\ At(heightmap', <<0, 0>>) # At(seeded, <<0, 0>>)]_vars

\* a chunk of the second pass of a 9 x 9 map has been done
C7_Witness ==
    /\ pc = "square" /\ image_size = 9 /\ iters = 1 /\ x = 0 /\ y = 4
    /\ At(heightmap, <<6, 2>>) # 0
    /\ At(heightmap, <<4, 0>>) # At(passStart, <<4, 0>>)

\* the grid corners two adjacent tiles have in common: <<cell of the first,
\* cell of the second>>, the second tile lying at position + dir
SharedCorners(N, d) ==
    IF d = <<1, 0>>
    THEN {<<(<<N - 1, 0>>), (<<0, 0>>)>>, <<(<<N - 1, N - 1>>), (<<0, N - 1>>)>>}
    ELSE {<<(<<0, N - 1>>), (<<0, 0>>)>>, <<(<<N - 1, N - 1>>), (<<N - 1, 0>>)>>}

BothTilesDone == ValidRequest /\ pc = "done" /\ tileNo = 2

\* C8: in the finished heightmaps of two adjacent tiles (same seed, roughness
\* and image_size), each grid corner they have in common holds the same
\* elevation in both.
C8_FinishedCornersShared ==
    BothTilesDone =>
        \A sc \in SharedCorners(image_size, dir) :
            At(first.heightmap, sc[1]) = At(heightmap, sc[2])

\* C8, amended: the common corners are equal as seeded; in the finished
\* heightmaps they are equal where the corner is cell [0][0] of neither tile.
C8_SeededCornersShared ==
    BothTilesDone =>
        \A sc \in SharedCorners(image_size, dir) :
            /\ At(first.seeded, sc[1]) = At(seeded, sc[2])
            /\ (sc[1] # <<0, 0>> /\ sc[2] # <<0, 0>>)
                  => At(first.heightmap, sc[1]) = At(heightmap, sc[2])

C8_Witness ==
    /\ BothTilesDone /\ image_size = 5 /\ dir = <<1, 0>>
    /\ At(first.seeded, <<4, 0>>) = At(seeded, <<0, 0>>)
    /\ At(first.heightmap, <<4, 4>>) = At(heightmap, <<0, 4>>)
    /\ At(first.heightmap, <<4, 0>>) # At(heightmap, <<0, 0>>)

\* C9: for image_size = 2^k + 1, k >= 1, every index read or written by the
\* seeding, a square step or a diamond step lies in the grid, no diamond cell
\* has 0 neighbours to divide by, and generate_map does not panic.
C9_IndicesInRange ==
    ValidRequest =>
        /\ touched \subseteq Grid
        /\ pc # "panic"
        /\ (pc = "diamond" /\ y < image_size)
              => Len(Neighbors(x, y, chunk_size \div 2, image_size)) > 0
        /\ pc \in {"loop", "square", "diamond", "colour", "done"}
              => \A c \in Grid : At(heightmap, c) # NaN

\* a diamond step of the last level of a 9 x 9 map has read the last column
C9_Witness ==
    /\ ValidRequest /\ image_size = 9 /\ pc = "diamond" /\ chunk_size = 2
    /\ \E c \in touched : c[1] = image_size - 2
    /\ <<image_size - 1, 7>> \in touched

----------------------------------------------------------------------------
(* The colouring closures on their own: lines 255-270 applied to one p *)

\* generate_map is not running
GmIdle ==
    /\ position = <<0, 0>> /\ seed = 0 /\ roughness0 = 0 /\ image_size = 0
    /\ dir = <<1, 0>> /\ tileNo = 1 /\ first = [seeded |-> <<>>, heightmap |-> <<>>]
    /\ heightmap = <<>> /\ chunk_size = 0 /\ roughness = 0
    /\ x = 0 /\ y = 0 /\ idx = 0 /\ value = 0 /\ pixels = <<>>
    /\ iters = 0 /\ assigned = {} /\ passStart = <<>> /\ seeded = <<>>
    /\ touched = {}

InitColour ==
    /\ GmIdle /\ AppIdle
    /\ pc = "closure"
    /\ p \in 0..PUnit

\* lines 255-270: value, the packed colour, the four bytes
ColourOne ==
    /\ pc = "closure"
    /\ value' = Quantize(p)
    /\ pixels' = Unpack(Colour(p))
    /\ pc' = "closure_done"
    /\ UNCHANGED <<position, seed, roughness0, image_size, heightmap, chunk_size,
                   roughness, x, y, idx, p, iters, assigned, passStart, seeded,
                   touched, tileNo, dir, first>>
    /\ UNCHANGED appVars

NextColour == ColourOne

SpecColour == InitColour /\ [][NextColour]_vars

\* C3: the band is chosen from p with inclusive lower bounds: p < 0.20 gives
\* [0, 0, value]; 0.20 <= p < 0.65 gives [0, value, 0]; 0.65 <= p < 0.90 gives
\* [value/2, value/2, value/2]; p >= 0.90 gives [value, value, value]; the
\* fourth byte is 255.
C3_BandsInclusiveLower ==
    pc = "closure_done" =>
        pixels = IF 100 * p < 20 * PUnit THEN <<0, 0, value, 255>>
                 ELSE IF 100 * p < 65 * PUnit THEN <<0, value, 0, 255>>
                 ELSE IF 100 * p < 90 * PUnit
                      THEN <<value \div 2, value \div 2, value \div 2, 255>>
                 ELSE <<value, value, value, 255>>

\* p is exactly 0.20, 0.65 or 0.90 and has been coloured
C3_Witness ==
    /\ pc = "closure_done"
    /\ 100 * p \in {20 * PUnit, 65 * PUnit, 90 * PUnit}
    /\ pixels \in {<<0, 51, 0, 255>>, <<82, 82, 82, 255>>, <<229, 229, 229, 255>>}

\* C4: value is p * 255 rounded to the nearest integer and clamped into
\* 0..255 (p = 0.5 gives 128), and every emitted byte lies in 0..255.
C4_ValueRounded ==
    pc = "closure_done" =>
        /\ value = (2 * 255 * p + PUnit) \div (2 * PUnit)
        /\ 2 * p = PUnit => value = 128
        /\ \A i \in 1..4 : pixels[i] \in 0..255

\* C4, amended: value is p * 255 truncated toward zero (p = 0.5 gives 127);
\* it lies in 0..255, and so does every emitted byte.
C4_ValueTruncated ==
    pc = "closure_done" =>
        /\ value * PUnit <= 255 * p
        /\ 255 * p < (value + 1) * PUnit
        /\ 2 * p = PUnit => value = 127
        /\ value \in 0..255
        /\ \A i \in 1..4 : pixels[i] \in 0..255

C4_Witness ==
    /\ pc = "closure_done" /\ 2 * p = PUnit /\ value = 127
    /\ pixels = <<0, 127, 0, 255>>

----------------------------------------------------------------------------
(* The Bevy world: setup, process_gentile, ui_example, lines 52-162 *)

\* 2usize.pow(9) + 1, line 53
DEFAULT_TILE_SIZE == Pow2(9) + 1
\* line 126 and line 127
DEFAULT_ROUGHNESS == 2
DEFAULT_NODE_SIZE == 6

GenTileEvent(s, rough, size) ==
    [position |-> <<0, 0>>, seed |-> s, roughness |-> rough, image_size |-> size]

InitApp ==
    /\ GmIdle /\ AppIdle
    /\ pc = "idle" /\ p = 0

\* the Startup schedule, lines 52-67: the camera entity is spawned (and the
\* command applied when the schedule ends), the first event is sent
Setup ==
    /\ ~started
    /\ started' = TRUE
    /\ nextId' = nextId + 1
    /\ events' = Append(events, GenTileEvent(0, DEFAULT_ROUGHNESS, DEFAULT_TILE_SIZE))
    /\ UNCHANGED <<tiles, commands, ran, frame, uiSeed>>
    /\ UNCHANGED gmVars

\* lines 69-115: every event not read yet spawns one entity with Tile; the
\* spawn is a deferred command
process_gentile ==
    /\ started /\ frame < MaxFrames
    /\ "process_gentile" \notin ran
    /\ commands' = commands \o [i \in 1..Len(events) |->
                                   [op |-> "spawn", id |-> nextId + i - 1]]
    /\ nextId' = nextId + Len(events)
    /\ events' = <<>>
    /\ ran' = ran \cup {"process_gentile"}
    /\ UNCHANGED <<tiles, frame, uiSeed, started>>
    /\ UNCHANGED gmVars

\* for (entity, _) in sprite_query.iter_mut() { commands.entity(entity).despawn() }
RECURSIVE DespawnAll(_)
DespawnAll(S) ==
    IF S = {} THEN <<>>
    ELSE LET e == CHOOSE m \in S : \A o \in S : m <= o
         IN  <<[op |-> "despawn", id |-> e]>> \o DespawnAll(S \ {e})

\* lines 117-162: on a click the entities the query sees are despawned (a
\* deferred command each), a seed is drawn and one event is sent
ui_example ==
    /\ started /\ frame < MaxFrames
    /\ "ui_example" \notin ran
    /\ \E clicked \in BOOLEAN, drawn \in Seeds :
          IF clicked
          THEN /\ commands' = commands \o DespawnAll(tiles)
               /\ uiSeed' = drawn
               /\ events' = Append(events, GenTileEvent(drawn, DEFAULT_ROUGHNESS,
                                                        Pow2(DEFAULT_NODE_SIZE) + 1))
          ELSE UNCHANGED <<commands, uiSeed, events>>
    /\ ran' = ran \cup {"ui_example"}
    /\ UNCHANGED <<tiles, frame, nextId, started>>
    /\ UNCHANGED gmVars

RECURSIVE Apply(_, _, _)
Apply(ts, cs, i) ==
    IF i > Len(cs) THEN ts
    ELSE Apply(IF cs[i].op = "spawn" THEN ts \cup {cs[i].id} ELSE ts \ {cs[i].id},
               cs, i + 1)

\* the end of the Update schedule: the deferred commands are applied in order
apply_deferred ==
    /\ ran = {"process_gentile", "ui_example"}
    /\ tiles' = Apply(tiles, commands, 1)
    /\ commands' = <<>>
    /\ ran' = {}
    /\ frame' = frame + 1
    /\ UNCHANGED <<events, nextId, uiSeed, started>>
    /\ UNCHANGED gmVars

NextApp == Setup \/ process_gentile \/ ui_example \/ apply_deferred

SpecApp == InitApp /\ [][NextApp]_vars

\* C10: a click despawns every displayed tile and sends one event, an event
\* spawns one Tile; so, whatever the clicks and the order of the two systems
\* in a frame, at most one Tile entity exists once no event and no deferred
\* command is pending.
C10_AtMostOneTile ==
    (started /\ events = <<>> /\ commands = <<>>) => Cardinality(tiles) <= 1

====
